---- MODULE Spec2Model ----
(***************************************************************************)
(* Model of mcp_portman (src/src/mcp_portman/server.py): the JSON-file     *)
(* port registry, the OS availability probe, and the five tool handlers.   *)
(*                                                                         *)
(* Spec       each handler runs to completion (one action per handler);    *)
(*            the registry file starts absent or holding undecodable text. *)
(* SpecStore  the same handlers, started from any file a foreign writer    *)
(*            can leave (well-formed JSON of another shape included).      *)
(* SpecFault  Spec plus the faults of a single call: a save_registry that  *)
(*            raises, and an OS change between get_free_port's two probes. *)
(* SpecConc   concurrent invocations sharing the registry file, one action *)
(*            per load / open(truncate) / dump step of a handler.          *)
(***************************************************************************)
EXTENDS Integers, Sequences, FiniteSets, TLC

VARIABLES
    file,     \* content of REGISTRY_FILE
    free,     \* ports the OS would currently let a socket bind
    now,      \* datetime.now(), as a counter
    call,     \* the last handler invocation (Spec, SpecStore, SpecFault)
    result,   \* what that invocation returned or raised
    calls     \* the concurrent invocations (SpecConc)

vars == <<file, free, now, call, result, calls>>

----------------------------------------------------------------------------
(* Program constants *)

PORT_RANGE_START == 1024
PORT_RANGE_END == 49151

\* Python's None, for Optional[int] arguments and the 'port' of a result.
None == -1

----------------------------------------------------------------------------
(* Bounds and input sets *)

\* datetime.now() is read at most MaxClock times (one read per registration).
MaxClock == 2

\* Number of concurrent invocations in SpecConc.
NCalls == 3

\* The ports callers pass: both edges of the valid range, from either side.
Ports == {PORT_RANGE_START - 1, PORT_RANGE_START, PORT_RANGE_END, PORT_RANGE_END + 1}

\* The ports other processes bind and release.  Every other port of the
\* machine stays unbindable (1023 is privileged, the rest are held).
OsPorts == {PORT_RANGE_START, PORT_RANGE_END, PORT_RANGE_END + 1}

AppNames == {"web", "WEB", ""}

Descriptions == {"", "desc"}

----------------------------------------------------------------------------
(* Python built-ins used by the handlers *)

\* str(port): the decimal digits of a non-negative int.
RECURSIVE str(_)
str(n) == IF n < 10 THEN <<n>> ELSE Append(str(n \div 10), n % 10)

\* int(port_str)
RECURSIVE int(_)
int(s) == IF Len(s) = 0 THEN 0 ELSE 10 * int(SubSeq(s, 1, Len(s) - 1)) + s[Len(s)]

\* str.lower() on the application names in use.
lower(s) == IF s = "WEB" THEN "web" ELSE s

\* A dict is the sequence of its items in insertion order
\* ([key |-> port_str, value |-> info]); a decoded JSON value is
\* [type |-> "dict", items |-> ...] or [type |-> "list"] (the JSON text []).
EmptyDict == [type |-> "dict", items |-> <<>>]

JsonList == [type |-> "list"]

\* key in registry
DictHas(d, k) == d.type = "dict" /\ \E i \in 1..Len(d.items) : d.items[i].key = k

\* registry[key], for a key that is present
DictGet(d, k) == d.items[CHOOSE i \in 1..Len(d.items) : d.items[i].key = k].value

\* Faulty variant of DictSet: the dict is rebuilt from the new item alone.
DictSetFresh(d, k, v) == [d EXCEPT !.items = <<[key |-> k, value |-> v]>>]

\* registry[key] = value: a new key is appended, a present key keeps its place
DictSet(d, k, v) ==
    IF DictHas(d, k)
    THEN [d EXCEPT !.items = [i \in 1..Len(d.items) |->
              IF d.items[i].key = k THEN [key |-> k, value |-> v] ELSE d.items[i]]]
    ELSE [d EXCEPT !.items = Append(d.items, [key |-> k, value |-> v])]

\* Faulty variant of DictDel: every item is dropped.
DictDelAll(d, k) == [d EXCEPT !.items = <<>>]

\* del registry[key]
DictDel(d, k) ==
    LET keep(e) == e.key # k
    IN  [d EXCEPT !.items = SelectSeq(d.items, keep)]

\* An exception leaving the handler.
Raise(exc) == [raised |-> exc]

Raised(r) == "raised" \in DOMAIN r

----------------------------------------------------------------------------
(* Registry store *)

Absent == [kind |-> "absent"]

\* Text json.load rejects (JSONDecodeError): an empty file or a prefix of a
\* dump (open(.., 'w') truncates before json.dump writes, and a prefix of an
\* object never closes it).
Partial == [kind |-> "partial"]

Json(v) == [kind |-> "json", value |-> v]

load_registry(f) ==
    IF f.kind = "absent" THEN EmptyDict
    ELSE IF f.kind = "json" THEN f.value
    ELSE EmptyDict

\* The file once open(.., 'w') and json.dump have both completed.
save_registry(registry) == Json(registry)

\* The file between open(.., 'w') and the end of json.dump.
save_registry_open(registry) == Partial

----------------------------------------------------------------------------
(* Availability prober *)

is_port_available(port, os) == port \in os

----------------------------------------------------------------------------
(* Handlers: each maps its arguments and the state it reads to its result  *)
(* (and, for the two mutations, to the file and the clock it leaves).      *)

\* Faulty variant of OutOfRange: 'and' for 'or'.
OutOfRangeAny(port) == port < PORT_RANGE_START /\ port > PORT_RANGE_END

OutOfRange(port) == port < PORT_RANGE_START \/ port > PORT_RANGE_END

\* The next port of the scan whose probe can succeed: the loop's iterations
\* over ports the OS keeps bound all fail the probe and fall through.
NextProbe(port, os) ==
    LET later == {q \in os : q > port}
    IN  IF later = {} THEN PORT_RANGE_END + 1
        ELSE CHOOSE q \in later : \A x \in later : q <= x

\* Faulty variant of ScanCond: the registry is not consulted.
ScanCondNoRegistry(port, registry, os) == is_port_available(port, os)

ScanCond(port, registry, os) ==
    ~DictHas(registry, str(port)) /\ is_port_available(port, os)

RECURSIVE scan(_, _, _)
scan(port, registry, os) ==
    IF port > PORT_RANGE_END THEN None
    ELSE IF ScanCond(port, registry, os) THEN port
    ELSE scan(NextProbe(port, os), registry, os)

\* The reason list of lines 79-84.
\* Faulty variant of Reasons: 'elif' for the second 'if'.
ReasonsOneOnly(registered, app, os_available) ==
    IF registered THEN <<[why |-> "registered to", app |-> app]>>
    ELSE IF ~os_available THEN <<[why |-> "in use by OS", app |-> ""]>>
    ELSE <<>>

Reasons(registered, app, os_available) ==
    (IF registered THEN <<[why |-> "registered to", app |-> app]>> ELSE <<>>)
    \o (IF ~os_available THEN <<[why |-> "in use by OS", app |-> ""]>> ELSE <<>>)

PreferredOk(preferred_port, registry, os) ==
    ~DictHas(registry, str(preferred_port)) /\ is_port_available(preferred_port, os)

\* get_free_port; os2 is the OS state at the second probe (line 78).
get_free_port_at(preferred_port, f, os, os2) ==
    LET registry == load_registry(f)
    IN  IF preferred_port # None
        THEN IF OutOfRange(preferred_port)
             THEN [port |-> None,
                   message |-> [text |-> "is outside valid range", reason |-> <<>>]]
             ELSE LET port_str == str(preferred_port)
                  IN  IF PreferredOk(preferred_port, registry, os)
                      THEN [port |-> preferred_port,
                            message |-> [text |-> "is available", reason |-> <<>>]]
                      ELSE LET registered == DictHas(registry, port_str)
                               os_available == is_port_available(preferred_port, os2)
                           IN  IF registered
                                  /\ "app_name" \notin DOMAIN DictGet(registry, port_str)
                               THEN Raise("KeyError")
                               ELSE [port |-> None,
                                     message |-> [text |-> "is not available",
                                         reason |-> Reasons(registered,
                                             IF registered
                                             THEN DictGet(registry, port_str).app_name
                                             ELSE "",
                                             os_available)]]
        ELSE LET found == scan(PORT_RANGE_START, registry, os)
             IN  IF found # None
                 THEN [port |-> found,
                       message |-> [text |-> "Found available port", reason |-> <<>>]]
                 ELSE [port |-> None,
                       message |-> [text |-> "No free ports available in range",
                                    reason |-> <<>>]]

get_free_port(preferred_port, f, os) == get_free_port_at(preferred_port, f, os, os)

\* Faulty variant of lookup_by_port: a registered port the OS shows free is
\* reported as not registered.
lookup_by_port_live(port, f, os) ==
    LET registry == load_registry(f)
        port_str == str(port)
    IN  IF DictHas(registry, port_str) /\ ~is_port_available(port, os)
        THEN [port |-> port, registered |-> TRUE,
              os_available |-> is_port_available(port, os)]
             @@ DictGet(registry, port_str)
        ELSE [port |-> port, registered |-> FALSE,
              os_available |-> is_port_available(port, os),
              message |-> "Port not registered in MCP Port Manager"]

lookup_by_port(port, f, os) ==
    LET registry == load_registry(f)
        port_str == str(port)
    IN  IF DictHas(registry, port_str)
        THEN [port |-> port, registered |-> TRUE,
              os_available |-> is_port_available(port, os)]
             @@ DictGet(registry, port_str)
        ELSE [port |-> port, registered |-> FALSE,
              os_available |-> is_port_available(port, os),
              message |-> "Port not registered in MCP Port Manager"]

\* matching_ports.sort(key=lambda x: x['port']): a stable sort, by insertion.
RECURSIVE SortedInsert(_, _)
SortedInsert(sorted, x) ==
    IF sorted = <<>> THEN <<x>>
    ELSE IF sorted[Len(sorted)].port <= x.port THEN Append(sorted, x)
    ELSE Append(SortedInsert(SubSeq(sorted, 1, Len(sorted) - 1), x), sorted[Len(sorted)])

RECURSIVE SortByPort(_)
SortByPort(s) ==
    IF s = <<>> THEN <<>>
    ELSE SortedInsert(SortByPort(SubSeq(s, 1, Len(s) - 1)), s[Len(s)])

\* Faulty variant of AppMatches: the names are compared as given.
AppMatchesExact(info, app_name) == info.app_name = app_name

AppMatches(info, app_name) == lower(info.app_name) = lower(app_name)

\* The loop of lines 150-155 over the first n items.
RECURSIVE MatchingPorts(_, _, _, _)
MatchingPorts(items, n, app_name, os) ==
    IF n = 0 THEN <<>>
    ELSE LET rest == MatchingPorts(items, n - 1, app_name, os)
             info == items[n].value
         IN  IF AppMatches(info, app_name)
             THEN Append(rest, [port |-> int(items[n].key),
                                os_available |-> is_port_available(int(items[n].key), os)]
                               @@ info)
             ELSE rest

lookup_by_application(app_name, f, os) ==
    LET registry == load_registry(f)
    IN  IF registry.type # "dict" THEN Raise("AttributeError")
        ELSE IF \E i \in 1..Len(registry.items) :
                    "app_name" \notin DOMAIN registry.items[i].value
        THEN Raise("KeyError")
        ELSE LET matching_ports ==
                     SortByPort(MatchingPorts(registry.items, Len(registry.items),
                                              app_name, os))
             IN  [app_name |-> app_name, ports |-> matching_ports,
                  count |-> Len(matching_ports)]

\* Faulty variant of NewInfo: the description is not stored.
NewInfoNoDescription(app_name, description, clock) ==
    [app_name |-> app_name, description |-> "", registered_at |-> clock]

\* Lines 199-203.
NewInfo(app_name, description, clock) ==
    [app_name |-> app_name, description |-> description, registered_at |-> clock]

\* Faulty variant of AlreadyRegistered: the check is skipped.
AlreadyRegisteredNever(registry, port_str) == FALSE

\* Line 190.
AlreadyRegistered(registry, port_str) == DictHas(registry, port_str)

\* register_port up to its call of save_registry: the failure it returns
\* or raises, or else the registry it is about to save.
register_port_modify(port, app_name, description, registry, clock) ==
    LET port_str == str(port)
    IN  IF AlreadyRegistered(registry, port_str)
        THEN IF "app_name" \notin DOMAIN DictGet(registry, port_str)
             THEN [save |-> FALSE, result |-> Raise("KeyError")]
             ELSE [save |-> FALSE,
                   result |-> [success |-> FALSE,
                               message |-> [text |-> "is already registered to",
                                            app |-> DictGet(registry, port_str).app_name],
                               existing_registration |-> DictGet(registry, port_str)]]
        ELSE IF registry.type # "dict"
        THEN [save |-> FALSE, result |-> Raise("TypeError")]
        ELSE [save |-> TRUE,
              registry |-> DictSet(registry, port_str,
                                   NewInfo(app_name, description, clock))]

\* Faulty variant of register_port_success: the port is reported bindable
\* without a probe.
register_port_success_unprobed(port, app_name, description, os) ==
    [success |-> TRUE,
     message |-> [text |-> "Successfully registered port", app |-> app_name],
     port |-> port, app_name |-> app_name, description |-> description,
     os_available |-> TRUE]

\* Lines 207-214.
register_port_success(port, app_name, description, os) ==
    [success |-> TRUE,
     message |-> [text |-> "Successfully registered port", app |-> app_name],
     port |-> port, app_name |-> app_name, description |-> description,
     os_available |-> is_port_available(port, os)]

register_port_out_of_range(port) ==
    [success |-> FALSE, message |-> [text |-> "is outside valid range", app |-> ""]]

register_port(port, app_name, description, f, os, clock) ==
    IF OutOfRange(port)
    THEN [file |-> f, now |-> clock, result |-> register_port_out_of_range(port)]
    ELSE LET m == register_port_modify(port, app_name, description,
                                       load_registry(f), clock + 1)
         IN  IF m.save
             THEN [file |-> save_registry(m.registry), now |-> clock + 1,
                   result |-> register_port_success(port, app_name, description, os)]
             ELSE [file |-> f, now |-> clock, result |-> m.result]

\* unregister_port up to its call of save_registry.
unregister_port_modify(port, registry) ==
    LET port_str == str(port)
    IN  IF ~DictHas(registry, port_str)
        THEN [save |-> FALSE,
              result |-> [success |-> FALSE, message |-> "is not registered"]]
        ELSE [save |-> TRUE,
              registry |-> DictDel(registry, port_str),
              result |-> [success |-> TRUE,
                          message |-> "Successfully unregistered port",
                          removed_registration |->
                              [port |-> port] @@ DictGet(registry, port_str)]]

unregister_port(port, f) ==
    LET m == unregister_port_modify(port, load_registry(f))
    IN  IF m.save
        THEN [file |-> save_registry(m.registry), result |-> m.result]
        ELSE [file |-> f, result |-> m.result]

----------------------------------------------------------------------------
(* Sequential behaviour: one action per handler, plus the OS *)

NoCall == [op |-> "none"]

IdleCalls == [c \in 1..NCalls |-> [pc |-> "idle"]]

Init ==
    /\ file \in {Absent, Partial}
    /\ free \in SUBSET OsPorts
    /\ now = 0
    /\ call = NoCall
    /\ result = NoCall
    /\ calls = IdleCalls

\* Another process binds a port.
OsBind(p) ==
    /\ p \in free
    /\ free' = free \ {p}
    /\ UNCHANGED <<file, now, call, result, calls>>

\* A process holding a port releases it.
OsRelease(p) ==
    /\ p \notin free
    /\ free' = free \cup {p}
    /\ UNCHANGED <<file, now, call, result, calls>>

GetFreePort(preferred_port) ==
    /\ call' = [op |-> "get_free_port", port |-> preferred_port]
    /\ result' = get_free_port(preferred_port, file, free)
    /\ UNCHANGED <<file, free, now, calls>>

LookupByPort(port) ==
    /\ call' = [op |-> "lookup_by_port", port |-> port]
    /\ result' = lookup_by_port(port, file, free)
    /\ UNCHANGED <<file, free, now, calls>>

LookupByApplication(app_name) ==
    /\ call' = [op |-> "lookup_by_application", app_name |-> app_name]
    /\ result' = lookup_by_application(app_name, file, free)
    /\ UNCHANGED <<file, free, now, calls>>

RegisterPort(port, app_name, description) ==
    LET out == register_port(port, app_name, description, file, free, now)
    IN  /\ out.now <= MaxClock
        /\ call' = [op |-> "register_port", port |-> port, app_name |-> app_name,
                    description |-> description]
        /\ result' = out.result
        /\ file' = out.file
        /\ now' = out.now
        /\ UNCHANGED <<free, calls>>

UnregisterPort(port) ==
    LET out == unregister_port(port, file)
    IN  /\ call' = [op |-> "unregister_port", port |-> port]
        /\ result' = out.result
        /\ file' = out.file
        /\ UNCHANGED <<free, now, calls>>

Next ==
    \/ \E p \in OsPorts : OsBind(p)
    \/ \E p \in OsPorts : OsRelease(p)
    \/ \E p \in Ports \cup {None} : GetFreePort(p)
    \/ \E p \in Ports : LookupByPort(p)
    \/ \E a \in AppNames : LookupByApplication(a)
    \/ \E p \in Ports, a \in AppNames, d \in Descriptions : RegisterPort(p, a, d)
    \/ \E p \in Ports : UnregisterPort(p)

Spec == Init /\ [][Next]_vars

\* A registry file left by a foreign writer: well-formed JSON that is not a
\* port-to-registration mapping.
NoAppNameInfo == [description |-> "desc", registered_at |-> 0]

ForeignFiles ==
    {Json(JsonList),
     Json([type |-> "dict",
           items |-> <<[key |-> str(PORT_RANGE_START), value |-> NoAppNameInfo]>>])}

InitStore ==
    /\ file \in {Absent, Partial} \cup ForeignFiles
    /\ free \in SUBSET OsPorts
    /\ now = 0
    /\ call = NoCall
    /\ result = NoCall
    /\ calls = IdleCalls

SpecStore == InitStore /\ [][Next]_vars

----------------------------------------------------------------------------
(* Sequential behaviour with the faults of one call: a save_registry that  *)
(* raises, and an OS that changes between the two probes of get_free_port. *)

\* Where save_registry raises: at open(REGISTRY_FILE, 'w') (line 33: the
\* file cannot be opened) or at json.dump (line 34: the write fails).
SaveFailures == {"open", "dump"}

\* The file a save_registry that raised leaves: untouched when the open
\* failed; emptied by the open, and not rewritten, when the dump failed.
save_registry_raises(at, f, registry) ==
    IF at = "open" THEN f ELSE save_registry_open(registry)

\* Faulty variant of NoExcept: the exception is swallowed and the handler
\* returns what it would have returned.
ExceptPass(exc, ret) == ret

\* Lines 205 and 243: save_registry is called outside any try, so what it
\* raises leaves the handler and the return statement is not reached.
NoExcept(exc, ret) == Raise(exc)

\* register_port whose save_registry raises (the timestamp of line 202 is
\* read before it).
RegisterPortSaveFails(port, app_name, description, at) ==
    LET m == register_port_modify(port, app_name, description,
                                  load_registry(file), now + 1)
    IN  /\ ~OutOfRange(port)
        /\ m.save
        /\ now + 1 <= MaxClock
        /\ call' = [op |-> "register_port", port |-> port, app_name |-> app_name,
                    description |-> description]
        /\ result' = NoExcept("IOError",
                              register_port_success(port, app_name, description, free))
        /\ file' = save_registry_raises(at, file, m.registry)
        /\ now' = now + 1
        /\ UNCHANGED <<free, calls>>

\* unregister_port whose save_registry raises.
UnregisterPortSaveFails(port, at) ==
    LET m == unregister_port_modify(port, load_registry(file))
    IN  /\ m.save
        /\ call' = [op |-> "unregister_port", port |-> port]
        /\ result' = NoExcept("IOError", m.result)
        /\ file' = save_registry_raises(at, file, m.registry)
        /\ UNCHANGED <<free, now, calls>>

\* get_free_port(preferred_port) that reaches line 78, while another
\* process binds or releases the port after line 71 was evaluated.
GetFreePortRacing(preferred_port) ==
    LET registry == load_registry(file)
    IN  /\ preferred_port # None
        /\ ~OutOfRange(preferred_port)
        /\ ~PreferredOk(preferred_port, registry, free)
        /\ free' = IF preferred_port \in free
                   THEN free \ {preferred_port}
                   ELSE free \cup {preferred_port}
        /\ call' = [op |-> "get_free_port", port |-> preferred_port]
        /\ result' = get_free_port_at(preferred_port, file, free, free')
        /\ UNCHANGED <<file, now, calls>>

NextFault ==
    \/ Next
    \/ \E p \in Ports, a \in AppNames, d \in Descriptions, at \in SaveFailures :
          RegisterPortSaveFails(p, a, d, at)
    \/ \E p \in Ports, at \in SaveFailures : UnregisterPortSaveFails(p, at)
    \/ \E p \in Ports : GetFreePortRacing(p)

SpecFault == Init /\ [][NextFault]_vars

----------------------------------------------------------------------------
(* Concurrent invocations: server processes sharing REGISTRY_FILE.  Each   *)
(* invocation c runs one handler call; its steps are the file accesses:    *)
(* load_registry (one read), open(.., 'w') (truncates), json.dump + close. *)

Calls == 1..NCalls

\* Arguments of the concurrent calls.
ConcPorts == {PORT_RANGE_START, PORT_RANGE_END}

\* Two applications.
ConcAppNames == {"web", "api"}

InitConc ==
    /\ file = Absent
    /\ free = OsPorts
    /\ now = 0
    /\ call = NoCall
    /\ result = NoCall
    /\ calls = IdleCalls

\* Invocation c enters register_port (line 186 is next).
CallRegister(c, port, app_name) ==
    /\ calls[c].pc = "idle"
    /\ calls' = [calls EXCEPT ![c] =
                    [pc |-> "load", op |-> "register_port", port |-> port,
                     app_name |-> app_name, description |-> ""]]
    /\ UNCHANGED <<file, free, now, call, result>>

\* Invocation c enters unregister_port (line 228 is next).
CallUnregister(c, port) ==
    /\ calls[c].pc = "idle"
    /\ calls' = [calls EXCEPT ![c] =
                    [pc |-> "load", op |-> "unregister_port", port |-> port]]
    /\ UNCHANGED <<file, free, now, call, result>>

\* Invocation c enters lookup_by_port (line 117 is next).
CallLookup(c, port) ==
    /\ calls[c].pc = "idle"
    /\ calls' = [calls EXCEPT ![c] =
                    [pc |-> "load", op |-> "lookup_by_port", port |-> port]]
    /\ UNCHANGED <<file, free, now, call, result>>

\* register_port from load_registry (line 186) to the call of save_registry.
LoadRegister(c) ==
    /\ calls[c].pc = "load"
    /\ calls[c].op = "register_port"
    /\ LET m == register_port_modify(calls[c].port, calls[c].app_name,
                                     calls[c].description, load_registry(file), now + 1)
       IN  IF m.save
           THEN /\ calls' = [calls EXCEPT ![c] =
                                [pc |-> "open", registry |-> m.registry] @@ calls[c]]
                /\ now' = now + 1
           ELSE /\ calls' = [calls EXCEPT ![c] =
                                [pc |-> "done", result |-> m.result] @@ calls[c]]
                /\ now' = now
    /\ UNCHANGED <<file, free, call, result>>

\* unregister_port from load_registry (line 228) to the call of save_registry.
LoadUnregister(c) ==
    /\ calls[c].pc = "load"
    /\ calls[c].op = "unregister_port"
    /\ LET m == unregister_port_modify(calls[c].port, load_registry(file))
       IN  IF m.save
           THEN calls' = [calls EXCEPT ![c] =
                             [pc |-> "open", registry |-> m.registry,
                              result |-> m.result] @@ calls[c]]
           ELSE calls' = [calls EXCEPT ![c] =
                             [pc |-> "done", result |-> m.result] @@ calls[c]]
    /\ UNCHANGED <<file, free, now, call, result>>

\* lookup_by_port: its one read of the file, and its probe.
LoadLookup(c) ==
    /\ calls[c].pc = "load"
    /\ calls[c].op = "lookup_by_port"
    /\ calls' = [calls EXCEPT ![c] =
                    [pc |-> "done",
                     result |-> lookup_by_port(calls[c].port, file, free)] @@ calls[c]]
    /\ UNCHANGED <<file, free, now, call, result>>

\* save_registry, line 33: open(REGISTRY_FILE, 'w') empties the file.
\* (truncated keeps what the open destroyed, for the properties.)
SaveOpen(c) ==
    /\ calls[c].pc = "open"
    /\ file' = save_registry_open(calls[c].registry)
    /\ calls' = [calls EXCEPT ![c] = [pc |-> "dump", truncated |-> file] @@ calls[c]]
    /\ UNCHANGED <<free, now, call, result>>

\* save_registry, line 34 and the end of the with block; then the handler
\* returns its success result.
SaveDump(c) ==
    /\ calls[c].pc = "dump"
    /\ file' = save_registry(calls[c].registry)
    /\ calls' = [calls EXCEPT ![c] =
                    [pc |-> "done",
                     result |-> IF calls[c].op = "register_port"
                                THEN register_port_success(calls[c].port,
                                         calls[c].app_name, calls[c].description, free)
                                ELSE calls[c].result] @@ calls[c]]
    /\ UNCHANGED <<free, now, call, result>>

\* save_registry, line 34: the write fails (disk full); the exception leaves
\* the handler and the file stays as the open and the failed write left it.
SaveFail(c) ==
    /\ calls[c].pc = "dump"
    /\ calls' = [calls EXCEPT ![c] =
                    [pc |-> "done", result |-> Raise("IOError")] @@ calls[c]]
    /\ UNCHANGED <<file, free, now, call, result>>

NextConc ==
    \/ \E c \in Calls, p \in ConcPorts, a \in ConcAppNames : CallRegister(c, p, a)
    \/ \E c \in Calls, p \in ConcPorts : CallUnregister(c, p)
    \/ \E c \in Calls, p \in ConcPorts : CallLookup(c, p)
    \/ \E c \in Calls : LoadRegister(c)
    \/ \E c \in Calls : LoadUnregister(c)
    \/ \E c \in Calls : LoadLookup(c)
    \/ \E c \in Calls : SaveOpen(c)
    \/ \E c \in Calls : SaveDump(c)
    \/ \E c \in Calls : SaveFail(c)

SpecConc == InitConc /\ [][NextConc]_vars

----------------------------------------------------------------------------
(* Properties *)

\* The Registry as a Load in the current state returns it.
Registry == load_registry(file)

RegisteredIn(f, p) == DictHas(load_registry(f), str(p))

RegistrationIn(f, p) == DictGet(load_registry(f), str(p))

Registered(p) == RegisteredIn(file, p)

RegistrationOf(p) == RegistrationIn(file, p)

InValidRange(p) == p >= 1024 /\ p <= 49151

\* The step is the handler named, called with the arguments call' records.
RegisterStep ==
    /\ call'.op = "register_port"
    /\ RegisterPort(call'.port, call'.app_name, call'.description)

UnregisterStep == call'.op = "unregister_port" /\ UnregisterPort(call'.port)

LookupStep == call'.op = "lookup_by_port" /\ LookupByPort(call'.port)

GetFreeStep == call'.op = "get_free_port" /\ GetFreePort(call'.port)

\* C1: a RegisterPort on a port that already has a Registration fails, its
\* result carries the existing Registration, and the file is left as it was.
C1_NoDoubleClaim ==
    [][(RegisterStep /\ Registered(call'.port)) =>
          /\ result'.success = FALSE
          /\ "existing_registration" \in DOMAIN result'
          /\ result'.existing_registration = RegistrationOf(call'.port)
          /\ result'.message.text = "is already registered to"
          /\ file' = file]_vars

C1_Witness ==
    /\ call.op = "register_port"
    /\ "existing_registration" \in DOMAIN result
    /\ result.success = FALSE
    /\ result.existing_registration.app_name # call.app_name
    /\ Registered(call.port)
    /\ RegistrationOf(call.port) = result.existing_registration

Done(c) == calls[c].pc = "done"

Succeeded(c) == Done(c) /\ ~Raised(calls[c].result) /\ calls[c].result.success

\* No save is in progress and none has failed.
Quiescent ==
    \A c \in Calls : calls[c].pc \in {"idle", "done"}
                     /\ (Done(c) => ~Raised(calls[c].result))

\* C2: mutations are serialized.  The instance the claim names: when two
\* concurrent RegisterPort calls on distinct ports have both returned
\* success, no call has unregistered either port and no save is in progress
\* or failed, both ports are in the Registry.
C2_NoLostUpdate ==
    \A c, d \in Calls :
        (/\ c # d
         /\ calls[c].pc = "done" /\ calls[c].op = "register_port"
         /\ calls[d].pc = "done" /\ calls[d].op = "register_port"
         /\ Succeeded(c) /\ Succeeded(d)
         /\ calls[c].port # calls[d].port
         /\ Quiescent
         /\ \A e \in Calls : calls[e].pc # "idle" => calls[e].op # "unregister_port") =>
            /\ Registered(calls[c].port)
            /\ Registered(calls[d].port)

\* Call c is the one save in progress: every other call that ever opened the
\* file for writing finished its dump before c's open (c's open replaced it).
OnlySaver(c) ==
    /\ calls[c].pc = "dump"
    /\ \A e \in Calls \ {c} :
          "truncated" \in DOMAIN calls[e] =>
              /\ Done(e)
              /\ calls[c].truncated = save_registry(calls[e].registry)

\* C3: a Load that runs while a Save is between its open and the end of its
\* dump returns the Registry persisted before that Save or the Registry
\* being saved.
C3_NoTornRead ==
    [][\A r \in Calls :
          LoadLookup(r) =>
              \A c \in Calls \ {r} :
                  OnlySaver(c) =>
                      load_registry(file) \in
                          {load_registry(calls[c].truncated), calls[c].registry}]_vars

\* C4: a Registration, once created by a successful RegisterPort(p, a, d),
\* stays in the Registry with the same app_name, description and
\* registered_at over every step (handler or OS change) that is not a
\* successful UnregisterPort(p).
C4_NeverEvicted ==
    [][/\ (RegisterStep /\ result'.success) =>
             /\ RegisteredIn(file', call'.port)
             /\ RegistrationIn(file', call'.port) =
                    [app_name |-> call'.app_name, description |-> call'.description,
                     registered_at |-> now']
       /\ \A p \in Ports :
             Registered(p) =>
                 \/ RegisteredIn(file', p) /\ RegistrationIn(file', p) = RegistrationOf(p)
                 \/ UnregisterStep /\ call'.port = p /\ result'.success]_vars

C4_Witness ==
    /\ Registered(PORT_RANGE_START)
    /\ RegistrationOf(PORT_RANGE_START).registered_at = 1
    /\ now = 2
    /\ PORT_RANGE_START \notin free
    /\ call.op = "unregister_port"
    /\ call.port = PORT_RANGE_END
    /\ result.success

\* C5: RegisterPort and FindFreePort of a port outside [1024, 49151] return
\* the out-of-range result and leave the file as it was.
C5_OutOfRange ==
    [][/\ (RegisterStep /\ ~InValidRange(call'.port)) =>
             /\ result'.success = FALSE
             /\ result'.message.text = "is outside valid range"
             /\ file' = file
       /\ (GetFreeStep /\ call'.port # None /\ ~InValidRange(call'.port)) =>
             /\ result'.port = None
             /\ result'.message.text = "is outside valid range"
             /\ file' = file]_vars

C5_Witness ==
    /\ call.op = "register_port"
    /\ call.port = PORT_RANGE_END + 1
    /\ call.port \in free
    /\ result.success = FALSE
    /\ Registered(PORT_RANGE_END)

\* The ports FindFreePort() may return: in range, unregistered, bindable.
Qualifying == {p \in free : InValidRange(p) /\ ~Registered(p)}

\* C6: FindFreePort() returns the smallest in-range port that is unregistered
\* and bindable, and NoFreePort exactly when there is none.  The result is a
\* function of the Registry and the OS state, so two calls in the same state
\* agree.
C6_SmallestFree ==
    [][(GetFreeStep /\ call'.port = None) =>
          IF Qualifying = {}
          THEN /\ result'.port = None
               /\ result'.message.text = "No free ports available in range"
          ELSE /\ result'.port \in Qualifying
               /\ \A q \in Qualifying : result'.port <= q]_vars

C6_Witness ==
    /\ call.op = "get_free_port"
    /\ call.port = None
    /\ result.port = PORT_RANGE_END
    /\ PORT_RANGE_START \in free
    /\ Registered(PORT_RANGE_START)

HasReason(r, why) == \E i \in 1..Len(r.message.reason) : r.message.reason[i].why = why

C8_RoundTrip ==
    [][/\ (RegisterStep /\ InValidRange(call'.port) /\ ~Registered(call'.port)) =>
             result'.success
       /\ (/\ call.op = "register_port" /\ result.success
           /\ LookupStep /\ call'.port = call.port) =>
              /\ result'.registered
              /\ result'.app_name = call.app_name
              /\ result'.description = call.description
       /\ (/\ call.op = "lookup_by_port" /\ result.registered
           /\ UnregisterStep /\ call'.port = call.port) =>
              result'.success
       /\ (/\ call.op = "unregister_port" /\ result.success
           /\ LookupStep /\ call'.port = call.port) =>
              result'.registered = FALSE]_vars

C8_Witness ==
    /\ call.op = "lookup_by_port"
    /\ result.registered
    /\ result.app_name = "WEB"
    /\ result.description = "desc"
    /\ result.registered_at = now

\* C9: UnregisterPort(p) of an unregistered port fails and leaves the file as
\* it was; of a registered port it removes p's entry alone and returns the
\* removed Registration.
C9_Unregister ==
    [][UnregisterStep =>
          LET p == call'.port
          IN  IF ~Registered(p)
              THEN /\ result'.success = FALSE
                   /\ result'.message = "is not registered"
                   /\ file' = file
              ELSE /\ result'.success
                   /\ ~RegisteredIn(file', p)
                   /\ \A q \in Ports \ {p} :
                          /\ RegisteredIn(file', q) = Registered(q)
                          /\ Registered(q) => RegistrationIn(file', q) = RegistrationOf(q)
                   /\ Len(Registry'.items) = Len(Registry.items) - 1
                   /\ result'.removed_registration.app_name = RegistrationOf(p).app_name
                   /\ result'.removed_registration.description =
                          RegistrationOf(p).description
                   /\ result'.removed_registration.registered_at =
                          RegistrationOf(p).registered_at]_vars

C9_Witness ==
    /\ call.op = "unregister_port"
    /\ result.success
    /\ result.removed_registration.registered_at = 1
    /\ now = 2
    /\ Len(Registry.items) = 1
    /\ ~Registered(call.port)

LookupAppStep ==
    /\ call'.op = "lookup_by_application"
    /\ LookupByApplication(call'.app_name)

\* Equal ignoring case, over the application names in use.
SameIgnoringCase(a, b) == a = b \/ {a, b} = {"web", "WEB"}

\* C11: LookupByApplication(name) returns exactly the Registrations whose
\* app_name equals name ignoring case, each with its stored fields, in
\* strictly ascending port order whatever the insertion order, and count is
\* the number of entries returned (0 and an empty list when none matches).
C11_LookupByApplication ==
    [][LookupAppStep =>
          LET ports == result'.ports
              matching == {q \in Ports : Registered(q)
                             /\ SameIgnoringCase(RegistrationOf(q).app_name,
                                                 call'.app_name)}
          IN  /\ {ports[i].port : i \in 1..Len(ports)} = matching
              /\ \A i \in 1..Len(ports) :
                     /\ ports[i].app_name = RegistrationOf(ports[i].port).app_name
                     /\ ports[i].description = RegistrationOf(ports[i].port).description
                     /\ ports[i].registered_at =
                            RegistrationOf(ports[i].port).registered_at
                     /\ ports[i].os_available = (ports[i].port \in free)
              /\ \A i, j \in 1..Len(ports) : i < j => ports[i].port < ports[j].port
              /\ result'.count = Len(ports)
              /\ result'.count = Cardinality(matching)]_vars

C11_Witness ==
    /\ call.op = "lookup_by_application"
    /\ call.app_name = "WEB"
    /\ result.count = 2
    /\ result.ports[1].port = PORT_RANGE_START
    /\ result.ports[1].app_name = "web"
    /\ Registry.items[1].key = str(PORT_RANGE_END)

\* C12: the read handlers leave the file as it was, and a LookupByPort(p)
\* reports exactly what the Registry holds for p, so it repeats the previous
\* LookupByPort(p)'s registered flag and Registration fields whatever the OS
\* did to p in between (call and result are the previous call and its
\* result; a register or unregister in between would have replaced them).
C12_ReadPath ==
    [][/\ (LookupStep \/ LookupAppStep \/ GetFreeStep) => (file' = file /\ now' = now)
       /\ LookupStep =>
              /\ result'.registered = Registered(call'.port)
              /\ result'.registered =>
                     /\ result'.app_name = RegistrationOf(call'.port).app_name
                     /\ result'.description = RegistrationOf(call'.port).description
                     /\ result'.registered_at = RegistrationOf(call'.port).registered_at
       /\ (call.op = "lookup_by_port" /\ LookupStep /\ call'.port = call.port) =>
              /\ result'.registered = result.registered
              /\ result.registered =>
                     /\ result'.app_name = result.app_name
                     /\ result'.description = result.description
                     /\ result'.registered_at = result.registered_at]_vars

\* A LookupByPort of a registered port has returned and the OS has bound the
\* port since: the next LookupByPort(p) differs from this one in os_available.
C12_Witness ==
    /\ call.op = "lookup_by_port"
    /\ result.registered
    /\ result.os_available
    /\ call.port \notin free
    /\ Registered(call.port)

\* C15: RegisterPort of an in-range unregistered port succeeds and persists
\* the Registration whether or not the port is bindable; os_available in the
\* result is the probe's answer.
C15_IntentNotOsState ==
    [][(RegisterStep /\ InValidRange(call'.port) /\ ~Registered(call'.port)) =>
          /\ result'.success
          /\ RegisteredIn(file', call'.port)
          /\ RegistrationIn(file', call'.port).app_name = call'.app_name
          /\ result'.os_available = (call'.port \in free)]_vars

C15_Witness ==
    /\ call.op = "register_port"
    /\ "os_available" \in DOMAIN result
    /\ result.success
    /\ result.os_available = FALSE
    /\ call.port \notin free
    /\ Registered(call.port)

\* C16: every Registration in the Registry has a non-empty app_name.
C16_AppNameNonEmpty ==
    \A i \in 1..Len(Registry.items) : Registry.items[i].value.app_name # ""

RegisterFailStep ==
    /\ call'.op = "register_port"
    /\ \E at \in SaveFailures :
          RegisterPortSaveFails(call'.port, call'.app_name, call'.description, at)

UnregisterFailStep ==
    /\ call'.op = "unregister_port"
    /\ \E at \in SaveFailures : UnregisterPortSaveFails(call'.port, at)

\* The structured results of the negative outcomes.
Structured(r) == ~Raised(r) /\ r # NoCall

\* C13: a RegisterPort or UnregisterPort whose save fails ends in an error
\* raised to the caller, never in success = TRUE nor in a structured
\* result; OutOfRange, AlreadyRegistered, NotRegistered and NoFreePort are
\* returned as structured results and leave the file as it was.
C13_SaveFailureRaises ==
    [][/\ (RegisterFailStep \/ UnregisterFailStep) =>
              /\ Raised(result')
              /\ DOMAIN result' = {"raised"}
       /\ (RegisterStep /\ (~InValidRange(call'.port) \/ Registered(call'.port))) =>
              /\ Structured(result')
              /\ result'.success = FALSE
              /\ file' = file
       /\ (UnregisterStep /\ ~Registered(call'.port)) =>
              /\ Structured(result')
              /\ result'.success = FALSE
              /\ file' = file
       /\ (GetFreeStep /\ call'.port = None /\ Qualifying = {}) =>
              /\ Structured(result')
              /\ result'.port = None]_vars

\* A RegisterPort whose write failed after the open has raised.
C13_Witness ==
    /\ call.op = "register_port"
    /\ Raised(result)
    /\ file = Partial
    /\ now > 0

\* C17: a FindFreePort(p) for an in-range p that reports p unavailable
\* names at least one reason, also when the OS binds or releases p between
\* the two probes of the call.
C17_ReasonNamed ==
    (/\ call.op = "get_free_port"
     /\ call.port # None
     /\ InValidRange(call.port)
     /\ ~Raised(result)
     /\ result.port = None) =>
        Len(result.message.reason) >= 1

\* C18: a RegisterPort(p) or UnregisterPort(p) whose save fails leaves every
\* Registration of another port as a Load returned it before the call.
C18_FailedSaveKeepsOthers ==
    [][(RegisterFailStep \/ UnregisterFailStep) =>
          \A q \in Ports \ {call'.port} :
              Registered(q) =>
                  /\ RegisteredIn(file', q)
                  /\ RegistrationIn(file', q) = RegistrationOf(q)]_vars

\* The calls that entered RegisterPort(p), and those that returned success.
RegisterCalls(p) ==
    {c \in Calls : /\ calls[c].pc # "idle"
                    /\ calls[c].op = "register_port"
                    /\ calls[c].port = p}

Winners(p) == {c \in RegisterCalls(p) : Succeeded(c)}

\* C14: among concurrent RegisterPort calls of different applications for
\* the same port, with no UnregisterPort of that port, at most one returns
\* success; and when these are the only calls and all have returned, the
\* Registry holds the app_name of the successful one.
C14_StrictFirstCome ==
    \A p \in ConcPorts :
        (\A e \in Calls : calls[e].pc # "idle" =>
                              ~(calls[e].op = "unregister_port" /\ calls[e].port = p)) =>
            /\ \A c, d \in Winners(p) :
                   calls[c].app_name # calls[d].app_name => c = d
            /\ (/\ Quiescent
                /\ Winners(p) # {}
                /\ \A e \in Calls : calls[e].pc # "idle" => e \in RegisterCalls(p)) =>
                   /\ Registered(p)
                   /\ \E c \in Winners(p) :
                          RegistrationOf(p).app_name = calls[c].app_name

\* C10: whatever the registry file holds, no handler raises: every call
\* completes with a structured result.
C10_LoadNeverMalformed ==
    Raised(result) => result.raised \notin {"KeyError", "TypeError", "AttributeError"}

====
